---- MODULE Spec2Model ----
(***************************************************************************)
(* Model of src/src/Main.cpp, the "Great Escape" bot: the collision map,   *)
(* the recursive shortest-path solver, the wall legality checks, the wall  *)
(* evaluator and the per-turn decision of main().                          *)
(***************************************************************************)
EXTENDS Integers, Sequences, FiniteSets, TLC

----------------------------------------------------------------------------
(* enum EDirection *)
eNone == 0
eRight == 1
eLeft == 2
eDown == 3
eUp == 4

(* size_t arithmetic.  The model checker's integers are 32 bits wide, so   *)
(* the modulus of size_t is represented by 2^23: SizeMax plays the role of *)
(* std::numeric_limits<size_t>::max(), the value 0 - 1 wraps to, and the   *)
(* weighted sum of three values up to SizeMax (Score) stays within 32 bits *)
(* as it stays within the range of float in the code.                      *)
SizeMax == 8388607

Inc(n) == IF n = SizeMax THEN 0 ELSE n + 1
Dec(n) == IF n = 0 THEN SizeMax ELSE n - 1

(* The subtraction with its operands exchanged: a faulty variant that the  *)
(* impacts of a wall must tell from Sub                                    *)
SubReversed(a, b) == IF b >= a THEN b - a ELSE (SizeMax - (a - b)) + 1

Sub(a, b) == IF a >= b THEN a - b ELSE (SizeMax - (b - a)) + 1

(* Column seeded for goal Right and row seeded for goal Down *)
GoalColumn == 8
GoalRow == 8

----------------------------------------------------------------------------
(* struct Coords *)
Coords(x, y) == [x |-> x, y |-> y]

right(c) == Coords(Inc(c.x), c.y)
left(c) == Coords(Dec(c.x), c.y)
down(c) == Coords(c.x, Inc(c.y))
up(c) == Coords(c.x, Dec(c.y))
downright(c) == Coords(Inc(c.x), Inc(c.y))
downleft(c) == Coords(Dec(c.x), Inc(c.y))
upright(c) == Coords(Inc(c.x), Dec(c.y))
upleft(c) == Coords(Dec(c.x), Dec(c.y))

(* struct Wall *)
Wall(c, o) == [coords |-> c, orientation |-> o]

(* Matrix<TElement>: mMatrix[x][y], a vector of columns *)
Matrix(aWidthX, aHeightY, aInitValue) ==
    [x \in 0..(aWidthX - 1) |-> [y \in 0..(aHeightY - 1) |-> aInitValue]]

width(m) == Cardinality(DOMAIN m)
height(m) == Cardinality(DOMAIN m[0])

(* vector::at() succeeds exactly on these coordinates, and throws otherwise *)
InRange(m, c) == c.x \in DOMAIN m /\ c.y \in DOMAIN m[c.x]

(* struct Collision and struct Cell *)
NoCollision == [bRight |-> FALSE, bLeft |-> FALSE, bDown |-> FALSE, bUp |-> FALSE]
InfiniteCell == [distance |-> SizeMax, direction |-> eNone]

----------------------------------------------------------------------------
(* The solver without the rule for paths of equal length, so that the      *)
(* path found first is kept: a faulty variant that the choice of the step  *)
(* toward the goal edge must tell from findShortestCell                    *)
RECURSIVE findShortestFirstFound(_, _, _, _, _, _)
findShortestFirstFound(aOutPaths, aCollisions, aOrientation, aCoords, aDistance, aDirection) ==
    IF aOutPaths[aCoords.x][aCoords.y].distance > aDistance
    THEN LET coll == aCollisions[aCoords.x][aCoords.y]
             p0 == [aOutPaths EXCEPT ![aCoords.x][aCoords.y] =
                        [distance |-> aDistance, direction |-> aDirection]]
             p1 == IF (aCoords.x > 0) /\ ~coll.bLeft
                   THEN findShortestFirstFound(p0, aCollisions, aOrientation,
                                               left(aCoords), Inc(aDistance), eRight)
                   ELSE p0
             p2 == IF (aCoords.x < Dec(width(aOutPaths))) /\ ~coll.bRight
                   THEN findShortestFirstFound(p1, aCollisions, aOrientation,
                                               right(aCoords), Inc(aDistance), eLeft)
                   ELSE p1
             p3 == IF (aCoords.y > 0) /\ ~coll.bUp
                   THEN findShortestFirstFound(p2, aCollisions, aOrientation,
                                               up(aCoords), Inc(aDistance), eDown)
                   ELSE p2
             p4 == IF (aCoords.y < Dec(height(aOutPaths))) /\ ~coll.bDown
                   THEN findShortestFirstFound(p3, aCollisions, aOrientation,
                                               down(aCoords), Inc(aDistance), eUp)
                   ELSE p3
         IN  <<p1, p2, p3, p4>>[4]
    ELSE aOutPaths

(* The solver handing the direction eUp to the cell above instead of       *)
(* eDown: a faulty variant that the descent along the directions must tell *)
(* from findShortestCell                                                   *)
RECURSIVE findShortestWrongWay(_, _, _, _, _, _)
findShortestWrongWay(aOutPaths, aCollisions, aOrientation, aCoords, aDistance, aDirection) ==
    IF (aOutPaths[aCoords.x][aCoords.y].distance > aDistance)
       \/ ((aOutPaths[aCoords.x][aCoords.y].distance = aDistance)
           /\ (aDirection = aOrientation))
    THEN LET coll == aCollisions[aCoords.x][aCoords.y]
             p0 == [aOutPaths EXCEPT ![aCoords.x][aCoords.y] =
                        [distance |-> aDistance, direction |-> aDirection]]
             p1 == IF (aCoords.x > 0) /\ ~coll.bLeft
                   THEN findShortestWrongWay(p0, aCollisions, aOrientation,
                                             left(aCoords), Inc(aDistance), eRight)
                   ELSE p0
             p2 == IF (aCoords.x < Dec(width(aOutPaths))) /\ ~coll.bRight
                   THEN findShortestWrongWay(p1, aCollisions, aOrientation,
                                             right(aCoords), Inc(aDistance), eLeft)
                   ELSE p1
             p3 == IF (aCoords.y > 0) /\ ~coll.bUp
                   THEN findShortestWrongWay(p2, aCollisions, aOrientation,
                                             up(aCoords), Inc(aDistance), eUp)
                   ELSE p2
             p4 == IF (aCoords.y < Dec(height(aOutPaths))) /\ ~coll.bDown
                   THEN findShortestWrongWay(p3, aCollisions, aOrientation,
                                             down(aCoords), Inc(aDistance), eUp)
                   ELSE p3
         IN  <<p1, p2, p3, p4>>[4]
    ELSE aOutPaths

(* The recursive algorithm with the test of the wall above a cell mistaken *)
(* for the test of the wall below it: a faulty variant that the comparison *)
(* with the breadth-first search must tell from findShortestCell           *)
RECURSIVE findShortestWrongFlag(_, _, _, _, _, _)
findShortestWrongFlag(aOutPaths, aCollisions, aOrientation, aCoords, aDistance, aDirection) ==
    IF (aOutPaths[aCoords.x][aCoords.y].distance > aDistance)
       \/ ((aOutPaths[aCoords.x][aCoords.y].distance = aDistance)
           /\ (aDirection = aOrientation))
    THEN LET coll == aCollisions[aCoords.x][aCoords.y]
             p0 == [aOutPaths EXCEPT ![aCoords.x][aCoords.y] =
                        [distance |-> aDistance, direction |-> aDirection]]
             p1 == IF (aCoords.x > 0) /\ ~coll.bLeft
                   THEN findShortestWrongFlag(p0, aCollisions, aOrientation,
                                              left(aCoords), Inc(aDistance), eRight)
                   ELSE p0
             p2 == IF (aCoords.x < Dec(width(aOutPaths))) /\ ~coll.bRight
                   THEN findShortestWrongFlag(p1, aCollisions, aOrientation,
                                              right(aCoords), Inc(aDistance), eLeft)
                   ELSE p1
             p3 == IF (aCoords.y > 0) /\ ~coll.bDown
                   THEN findShortestWrongFlag(p2, aCollisions, aOrientation,
                                              up(aCoords), Inc(aDistance), eDown)
                   ELSE p2
             p4 == IF (aCoords.y < Dec(height(aOutPaths))) /\ ~coll.bDown
                   THEN findShortestWrongFlag(p3, aCollisions, aOrientation,
                                              down(aCoords), Inc(aDistance), eUp)
                   ELSE p3
         IN  <<p1, p2, p3, p4>>[4]
    ELSE aOutPaths

(* Recursive shortest path algorithm: findShortest with a cell, a distance *)
(* and the direction to go from that cell.  p1..p4 are the matrix after    *)
(* each of the four recursive calls; the tuple makes them happen in the    *)
(* order of the code, each on the matrix the previous one left.            *)
RECURSIVE findShortestCell(_, _, _, _, _, _)
findShortestCell(aOutPaths, aCollisions, aOrientation, aCoords, aDistance, aDirection) ==
    IF (aOutPaths[aCoords.x][aCoords.y].distance > aDistance)
       \/ ((aOutPaths[aCoords.x][aCoords.y].distance = aDistance)
           /\ (aDirection = aOrientation))
    THEN LET coll == aCollisions[aCoords.x][aCoords.y]
             p0 == [aOutPaths EXCEPT ![aCoords.x][aCoords.y] =
                        [distance |-> aDistance, direction |-> aDirection]]
             p1 == IF (aCoords.x > 0) /\ ~coll.bLeft
                   THEN findShortestCell(p0, aCollisions, aOrientation,
                                         left(aCoords), Inc(aDistance), eRight)
                   ELSE p0
             p2 == IF (aCoords.x < Dec(width(aOutPaths))) /\ ~coll.bRight
                   THEN findShortestCell(p1, aCollisions, aOrientation,
                                         right(aCoords), Inc(aDistance), eLeft)
                   ELSE p1
             p3 == IF (aCoords.y > 0) /\ ~coll.bUp
                   THEN findShortestCell(p2, aCollisions, aOrientation,
                                         up(aCoords), Inc(aDistance), eDown)
                   ELSE p2
             p4 == IF (aCoords.y < Dec(height(aOutPaths))) /\ ~coll.bDown
                   THEN findShortestCell(p3, aCollisions, aOrientation,
                                         down(aCoords), Inc(aDistance), eUp)
                   ELSE p3
         IN  <<p1, p2, p3, p4>>[4]
    ELSE aOutPaths

(* The seeding loops of findShortest: one column, or one row *)
RECURSIVE seedColumn(_, _, _, _, _)
seedColumn(aOutPaths, aCollisions, aOrientation, x, y) ==
    IF y < height(aOutPaths)
    THEN seedColumn(findShortestCell(aOutPaths, aCollisions, aOrientation,
                                     Coords(x, y), 0, eNone),
                    aCollisions, aOrientation, x, y + 1)
    ELSE aOutPaths

RECURSIVE seedRow(_, _, _, _, _)
seedRow(aOutPaths, aCollisions, aOrientation, x, y) ==
    IF x < width(aOutPaths)
    THEN seedRow(findShortestCell(aOutPaths, aCollisions, aOrientation,
                                  Coords(x, y), 0, eNone),
                 aCollisions, aOrientation, x + 1, y)
    ELSE aOutPaths

(* Whether findShortest throws: std::out_of_range at its first seed, or    *)
(* std::logic_error in the default case.  It throws before it writes.      *)
findShortestThrows(aOutPaths, aOrientation) ==
    CASE aOrientation = eRight -> ~InRange(aOutPaths, Coords(GoalColumn, 0))
      [] aOrientation = eLeft -> ~InRange(aOutPaths, Coords(0, 0))
      [] aOrientation = eDown -> ~InRange(aOutPaths, Coords(0, GoalRow))
      [] OTHER -> TRUE

(* Shortest path algorithm: the path matrix it leaves *)
findShortest(aOutPaths, aCollisions, aOrientation) ==
    IF findShortestThrows(aOutPaths, aOrientation)
    THEN aOutPaths
    ELSE CASE aOrientation = eRight ->
                seedColumn(aOutPaths, aCollisions, aOrientation, GoalColumn, 0)
           [] aOrientation = eLeft ->
                seedColumn(aOutPaths, aCollisions, aOrientation, 0, 0)
           [] OTHER ->
                seedRow(aOutPaths, aCollisions, aOrientation, 0, GoalRow)

----------------------------------------------------------------------------
(* One assignment "aOutCollisions.set(c).flag = abValue" of                *)
(* addWallCollisions.  r is [thrown, collisions]; once at() has thrown the *)
(* remaining assignments of the call are not executed.                     *)
setFlag(r, c, flag, abValue) ==
    IF r.thrown THEN r
    ELSE IF InRange(r.collisions, c)
         THEN [thrown |-> FALSE,
               collisions |-> [r.collisions EXCEPT ![c.x][c.y][flag] = abValue]]
         ELSE [thrown |-> TRUE, collisions |-> r.collisions]

(* addWallCollisions writing one side only of the second edge of the wall: *)
(* a faulty variant that the consistency of the edges must tell from it    *)
addWallCollisionsOneSide(aOutCollisions, aWall, abValue) ==
    LET r0 == [thrown |-> FALSE, collisions |-> aOutCollisions]
    IN  IF aWall.orientation = "H"
        THEN setFlag(setFlag(setFlag(r0,
                 up(aWall.coords), "bDown", abValue),
                 upright(aWall.coords), "bDown", abValue),
                 aWall.coords, "bUp", abValue)
        ELSE setFlag(setFlag(setFlag(r0,
                 left(aWall.coords), "bRight", abValue),
                 downleft(aWall.coords), "bRight", abValue),
                 aWall.coords, "bLeft", abValue)

(* addWallCollisions writing true into its first flag whatever abValue is: *)
(* a faulty variant that setting and resetting a wall must tell from it    *)
addWallCollisionsSticky(aOutCollisions, aWall, abValue) ==
    LET r0 == [thrown |-> FALSE, collisions |-> aOutCollisions]
    IN  IF aWall.orientation = "H"
        THEN setFlag(setFlag(setFlag(setFlag(r0,
                 up(aWall.coords), "bDown", TRUE),
                 upright(aWall.coords), "bDown", abValue),
                 aWall.coords, "bUp", abValue),
                 right(aWall.coords), "bUp", abValue)
        ELSE setFlag(setFlag(setFlag(setFlag(r0,
                 left(aWall.coords), "bRight", TRUE),
                 downleft(aWall.coords), "bRight", abValue),
                 aWall.coords, "bLeft", abValue),
                 down(aWall.coords), "bLeft", abValue)

(* Set (or reset) a wall into the collision matrix *)
addWallCollisions(aOutCollisions, aWall, abValue) ==
    LET r0 == [thrown |-> FALSE, collisions |-> aOutCollisions]
    IN  IF aWall.orientation = "H"
        THEN setFlag(setFlag(setFlag(setFlag(r0,
                 up(aWall.coords), "bDown", abValue),
                 upright(aWall.coords), "bDown", abValue),
                 aWall.coords, "bUp", abValue),
                 right(aWall.coords), "bUp", abValue)
        ELSE setFlag(setFlag(setFlag(setFlag(r0,
                 left(aWall.coords), "bRight", abValue),
                 downleft(aWall.coords), "bRight", abValue),
                 aWall.coords, "bLeft", abValue),
                 down(aWall.coords), "bLeft", abValue)

(* The test without the case of the new wall one cell to the left of a     *)
(* horizontal wall: a faulty variant that the geometry of a pair of walls  *)
(* must tell from isCompatibleWalls                                        *)
isCompatibleWallsOneWay(aExistingWall, aNewWall) ==
    IF aExistingWall.orientation = "H"
    THEN IF (aNewWall.orientation = "H")
            /\ ((aExistingWall.coords = aNewWall.coords)
                \/ (right(aExistingWall.coords) = aNewWall.coords))
         THEN FALSE
         ELSE IF (aNewWall.orientation = "V")
                 /\ (upright(aExistingWall.coords) = aNewWall.coords)
              THEN FALSE
              ELSE TRUE
    ELSE IF (aNewWall.orientation = "V")
            /\ ((up(aExistingWall.coords) = aNewWall.coords)
                \/ (aExistingWall.coords = aNewWall.coords)
                \/ (down(aExistingWall.coords) = aNewWall.coords))
         THEN FALSE
         ELSE IF (aNewWall.orientation = "H")
                 /\ (downleft(aExistingWall.coords) = aNewWall.coords)
              THEN FALSE
              ELSE TRUE

(* Test compatibility of a new wall against a wall already on the board *)
isCompatibleWalls(aExistingWall, aNewWall) ==
    IF aExistingWall.orientation = "H"
    THEN IF (aNewWall.orientation = "H")
            /\ ((left(aExistingWall.coords) = aNewWall.coords)
                \/ (aExistingWall.coords = aNewWall.coords)
                \/ (right(aExistingWall.coords) = aNewWall.coords))
         THEN FALSE
         ELSE IF (aNewWall.orientation = "V")
                 /\ (upright(aExistingWall.coords) = aNewWall.coords)
              THEN FALSE
              ELSE TRUE
    ELSE IF (aNewWall.orientation = "V")
            /\ ((up(aExistingWall.coords) = aNewWall.coords)
                \/ (aExistingWall.coords = aNewWall.coords)
                \/ (down(aExistingWall.coords) = aNewWall.coords))
         THEN FALSE
         ELSE IF (aNewWall.orientation = "H")
                 /\ (downleft(aExistingWall.coords) = aNewWall.coords)
              THEN FALSE
              ELSE TRUE

(* The test on the coordinates without the room for the span of the wall:  *)
(* a faulty variant that the rejection of the anchors that wrapped must    *)
(* tell from isCompatibleBounds                                            *)
isCompatibleBoundsNoSpan(aWidthX, aHeightY, aWall) ==
    IF aWall.orientation = "H"
    THEN ~((aWall.coords.y = 0) \/ (aWall.coords.y > aHeightY))
    ELSE ~((aWall.coords.x = 0) \/ (aWall.coords.x > aWidthX))

(* Test compatibility of a new wall based solely on coordinates *)
isCompatibleBounds(aWidthX, aHeightY, aWall) ==
    IF aWall.orientation = "H"
    THEN ~((aWall.coords.x >= Dec(aWidthX)) \/ (aWall.coords.y = 0)
           \/ (aWall.coords.y > aHeightY))
    ELSE ~((aWall.coords.y >= Dec(aHeightY)) \/ (aWall.coords.x = 0)
           \/ (aWall.coords.x > aWidthX))

(* The test on the coordinates alone, the walls of the board forgotten: a  *)
(* faulty variant that the legality of the wall put must tell from         *)
(* isCompatible                                                            *)
isCompatibleForgetful(aWidthX, aHeightY, aExistingWalls, aWall) ==
    isCompatibleBounds(aWidthX, aHeightY, aWall)

(* Test compatibility of a new wall against all walls already on the board *)
isCompatible(aWidthX, aHeightY, aExistingWalls, aWall) ==
    IF isCompatibleBounds(aWidthX, aHeightY, aWall)
    THEN \A i \in 1..Len(aExistingWalls) : isCompatibleWalls(aExistingWalls[i], aWall)
    ELSE FALSE

----------------------------------------------------------------------------
(* struct Evaluation.  The wall of an evaluation is only read once         *)
(* bIsValid is true, and evalWall has assigned it by then; NoWall stands   *)
(* for the unassigned member.                                              *)
NoWall == Wall(Coords(0, 0), "-")

Evaluation(bIsValid, wall, impactOnFirst, impactOnMySelf, impactOnOther) ==
    [bIsValid |-> bIsValid, wall |-> wall, impactOnFirst |-> impactOnFirst,
     impactOnMySelf |-> impactOnMySelf, impactOnOther |-> impactOnOther]

(* The weighted sum compared by Evaluation::operator<=.  The impacts are   *)
(* small integers, on which the float arithmetic of the code is exact.     *)
Score(e) == ((100 * e.impactOnFirst) - (70 * e.impactOnMySelf)) + (40 * e.impactOnOther)

(* The comparison made strict, which keeps the first of two equal results: *)
(* a faulty variant that the choice of the last maximum must tell from     *)
(* operator<=                                                              *)
EvalLess(a, b) == Score(a) < Score(b)

(* Evaluation::operator<= *)
EvalLessEq(a, b) == Score(a) <= Score(b)

(* The state of the loop of evalWall over the players: st holds the        *)
(* evaluation being built, the scratch path matrix, whether the loop was   *)
(* left by break, and whether a call threw.                                *)
(* evalImpact is the body of the loop from the test of nextDistance on.    *)
evalImpact(player, st, nextDistance) ==
    IF nextDistance < SizeMax
    THEN IF player.rank = 0
         THEN [st EXCEPT !.eval.impactOnFirst = Sub(nextDistance, player.distance)]
         ELSE IF player.bIsMySelf
              THEN [st EXCEPT !.eval.impactOnMySelf = Sub(nextDistance, player.distance)]
              ELSE [st EXCEPT !.eval.impactOnOther = Sub(nextDistance, player.distance)]
    ELSE [st EXCEPT !.eval.bIsValid = FALSE, !.stop = TRUE]

(* The body of the loop for a player alive, once findShortest has left the *)
(* scratch matrix as found, or has thrown                                  *)
evalFound(player, st, found, bThrown) ==
    IF bThrown \/ ~InRange(found, player.coords)
    THEN [st EXCEPT !.thrown = TRUE, !.paths = found]
    ELSE evalImpact(player, [st EXCEPT !.paths = found],
                    found[player.coords.x][player.coords.y].distance)

(* The body of the loop for a player alive *)
evalPlayer(player, aCollisions, st) ==
    evalFound(player, st,
              findShortest(Matrix(width(st.paths), height(st.paths), InfiniteCell),
                           aCollisions, player.orientation),
              findShortestThrows(st.paths, player.orientation))

(* The loop of evalWall over the players, from player id on *)
RECURSIVE evalPlayers(_, _, _, _)
evalPlayers(id, aPlayers, aCollisions, st) ==
    IF id \notin DOMAIN aPlayers \/ st.stop \/ st.thrown
    THEN st
    ELSE IF ~aPlayers[id].bIsAlive
         THEN evalPlayers(id + 1, aPlayers, aCollisions, st)
         ELSE evalPlayers(id + 1, aPlayers, aCollisions,
                          evalPlayer(aPlayers[id], aCollisions, st))

(* evalWall returning from inside its loop where a player is left without  *)
(* a path, the wall still set: a faulty variant that the state evalWall    *)
(* leaves must tell from evalWallEnd                                       *)
evalWallEndOnBreak(aBestEval, aWall, set, st, reset) ==
    IF st.thrown
    THEN [thrown |-> TRUE, paths |-> st.paths, collisions |-> set.collisions,
          bestEval |-> aBestEval, bIsCompatible |-> TRUE,
          eval |-> [st.eval EXCEPT !.wall = aWall], applied |-> set.collisions]
    ELSE IF st.stop
         THEN [thrown |-> FALSE, paths |-> st.paths, collisions |-> set.collisions,
               bestEval |-> aBestEval, bIsCompatible |-> TRUE,
               eval |-> [st.eval EXCEPT !.wall = aWall], applied |-> set.collisions]
         ELSE [thrown |-> reset.thrown, paths |-> st.paths,
               collisions |-> reset.collisions,
               bestEval |-> IF (st.eval.bIsValid) /\ (st.eval.impactOnFirst > 0)
                               /\ (EvalLessEq(aBestEval, st.eval) \/ (~aBestEval.bIsValid))
                            THEN [st.eval EXCEPT !.wall = aWall]
                            ELSE aBestEval,
               bIsCompatible |-> TRUE,
               eval |-> [st.eval EXCEPT !.wall = aWall], applied |-> set.collisions]

(* What evalWall leaves for a compatible wall: set is the collision matrix *)
(* with the wall set, st the state in which the loop over the players      *)
(* ended, reset the collision matrix with the wall reset                   *)
evalWallEnd(aBestEval, aWall, set, st, reset) ==
    IF st.thrown
    THEN [thrown |-> TRUE, paths |-> st.paths, collisions |-> set.collisions,
          bestEval |-> aBestEval, bIsCompatible |-> TRUE,
          eval |-> [st.eval EXCEPT !.wall = aWall], applied |-> set.collisions]
    ELSE [thrown |-> reset.thrown, paths |-> st.paths, collisions |-> reset.collisions,
          bestEval |-> IF (st.eval.bIsValid) /\ (st.eval.impactOnFirst > 0)
                          /\ (EvalLessEq(aBestEval, st.eval) \/ (~aBestEval.bIsValid))
                       THEN [st.eval EXCEPT !.wall = aWall]
                       ELSE aBestEval,
          bIsCompatible |-> TRUE,
          eval |-> [st.eval EXCEPT !.wall = aWall], applied |-> set.collisions]

(* What evalWall leaves for a compatible wall, once the wall is set *)
evalWallSet(aPaths, aPlayers, aWall, aBestEval, set) ==
    IF set.thrown
    THEN [thrown |-> TRUE, paths |-> aPaths, collisions |-> set.collisions,
          bestEval |-> aBestEval, bIsCompatible |-> TRUE,
          eval |-> Evaluation(FALSE, aWall, 0, 0, 0), applied |-> set.collisions]
    ELSE evalWallEnd(aBestEval, aWall, set,
                     evalPlayers(0, aPlayers, set.collisions,
                                 [eval |-> Evaluation(TRUE, NoWall, 0, 0, 0),
                                  paths |-> aPaths, stop |-> FALSE, thrown |-> FALSE]),
                     addWallCollisions(set.collisions, aWall, FALSE))

(* Evaluation of all impacts of a wall.  The result holds the three        *)
(* in-out parameters as the call leaves them, whether the call threw, and  *)
(* for the record: the verdict of the legality check, the evaluation made  *)
(* and the collision matrix while the wall was set.                        *)
evalWall(aPaths, aCollisions, aPlayers, aExistingWalls, aWall, aBestEval) ==
    IF ~isCompatible(width(aPaths), height(aPaths), aExistingWalls, aWall)
    THEN [thrown |-> FALSE, paths |-> aPaths, collisions |-> aCollisions,
          bestEval |-> aBestEval, bIsCompatible |-> FALSE,
          eval |-> Evaluation(FALSE, aWall, 0, 0, 0), applied |-> aCollisions]
    ELSE evalWallSet(aPaths, aPlayers, aWall, aBestEval,
                     addWallCollisions(aCollisions, aWall, TRUE))

----------------------------------------------------------------------------
(* The rules of the board, stated on cells and edges and independently of  *)
(* the code above.  They describe the boards the game can hand to the      *)
(* program, and are what the properties below compare the code with.       *)

RefCells(aWidthX, aHeightY) == (0..(aWidthX - 1)) \X (0..(aHeightY - 1))

(* The goal edge of an orientation *)
RefGoal(aWidthX, aHeightY, aOrientation) ==
    {c \in RefCells(aWidthX, aHeightY) :
        \/ aOrientation = eRight /\ c[1] = aWidthX - 1
        \/ aOrientation = eLeft /\ c[1] = 0
        \/ aOrientation = eDown /\ c[2] = aHeightY - 1}

(* The two edges a wall blocks, each as the pair of cells it separates *)
RefEdges(aWall) ==
    LET x == aWall.coords.x
        y == aWall.coords.y
    IN  IF aWall.orientation = "H"
        THEN {{<<x, y - 1>>, <<x, y>>}, {<<x + 1, y - 1>>, <<x + 1, y>>}}
        ELSE {{<<x - 1, y>>, <<x, y>>}, {<<x - 1, y + 1>>, <<x, y + 1>>}}

RefBlocked(aWalls) == UNION {RefEdges(aWalls[i]) : i \in 1..Len(aWalls)}

(* A wall lies on the board when both edges separate cells of the board *)
RefOnBoard(aWidthX, aHeightY, aWall) ==
    /\ aWall.orientation \in {"H", "V"}
    /\ aWall.coords.x \in 0..(aWidthX - 1)
    /\ aWall.coords.y \in 0..(aHeightY - 1)
    /\ \A e \in RefEdges(aWall) : e \subseteq RefCells(aWidthX, aHeightY)

(* Two walls conflict when they share an edge or cross at their midpoints *)
RefConflict(a, b) ==
    \/ RefEdges(a) \cap RefEdges(b) # {}
    \/ /\ a.orientation = "H" /\ b.orientation = "V"
       /\ b.coords.x = a.coords.x + 1 /\ b.coords.y = a.coords.y - 1
    \/ /\ a.orientation = "V" /\ b.orientation = "H"
       /\ a.coords.x = b.coords.x + 1 /\ a.coords.y = b.coords.y - 1

RefNeighbours(aWidthX, aHeightY, aBlocked, c) ==
    {n \in {<<c[1] + 1, c[2]>>, <<c[1] - 1, c[2]>>, <<c[1], c[2] + 1>>, <<c[1], c[2] - 1>>} :
        n \in RefCells(aWidthX, aHeightY) /\ {c, n} \notin aBlocked}

(* Breadth-first search by levels: dist maps the cells seen so far to      *)
(* their level, frontier is the last level found                           *)
RECURSIVE RefLevels(_, _, _, _, _, _)
RefLevels(aWidthX, aHeightY, aBlocked, dist, frontier, d) ==
    LET next == UNION {RefNeighbours(aWidthX, aHeightY, aBlocked, c) : c \in frontier}
                    \ DOMAIN dist
    IN  IF next = {}
        THEN dist
        ELSE RefLevels(aWidthX, aHeightY, aBlocked,
                       [c \in DOMAIN dist \cup next |->
                            IF c \in next THEN d + 1 ELSE dist[c]],
                       next, d + 1)

(* Length of the shortest path of every cell that has one to the goal edge *)
RefDistances(aWidthX, aHeightY, aWalls, aOrientation) ==
    LET goal == RefGoal(aWidthX, aHeightY, aOrientation)
    IN  RefLevels(aWidthX, aHeightY, RefBlocked(aWalls), [c \in goal |-> 0], goal, 0)

(* Distance of one cell, SizeMax when it has no path *)
RefDistance(aWidthX, aHeightY, aWalls, aOrientation, c) ==
    LET dist == RefDistances(aWidthX, aHeightY, aWalls, aOrientation)
    IN  IF c \in DOMAIN dist THEN dist[c] ELSE SizeMax

----------------------------------------------------------------------------
(* Bounds of the model *)
TurnBound == 2      \* turns played
MaxShort == 3       \* cells across the short side of a board
MaxLane == 1        \* the players other than the acting one stand in lanes 0..MaxLane
MaxGoalDist == 4    \* players stand 1..MaxGoalDist cells off their goal edge, the
                    \* acting player up to one cell more
MaxWalls == 1       \* walls on the board at the start of a turn
MaxWallsLeft == 1   \* walls a player has left

(* The loop bound of main() *)
MaxTurns == 100

(* Convert a player Id to the direction where it shall go; it throws for   *)
(* every other id                                                          *)
fromPlayerId(aId) ==
    CASE aId = 0 -> eRight
      [] aId = 1 -> eLeft
      [] aId = 2 -> eDown
      [] OTHER -> eNone

fromPlayerIdThrows(aId) == aId \notin {0, 1, 2}

(* Value-initialised Cell of a Matrix<Cell> made by its first constructor *)
ZeroCell == [distance |-> 0, direction |-> eNone]

(* struct Player as its constructor leaves it *)
Player(aWidthX, aHeightY) ==
    [paths |-> Matrix(aWidthX, aHeightY, ZeroCell), id |-> 0, bIsMySelf |-> FALSE,
     orientation |-> eNone, coords |-> Coords(0, 0), wallsLeft |-> 0, distance |-> 0,
     order |-> 0, rank |-> 0, bIsAlive |-> FALSE]

(* The comparison with the order in the turn reversed: a faulty variant    *)
(* that the ranking of the acting player must tell from Player::compare    *)
compareLastOnTie(a, b) ==
    IF a.distance # b.distance THEN a.distance < b.distance ELSE a.order > b.order

(* Player::compare *)
compare(a, b) ==
    IF a.distance # b.distance THEN a.distance < b.distance ELSE a.order < b.order

(* Coords::next; it throws for eNone *)
next(c, aDirection) ==
    CASE aDirection = eRight -> right(c)
      [] aDirection = eLeft -> left(c)
      [] aDirection = eDown -> down(c)
      [] aDirection = eUp -> up(c)
      [] OTHER -> c

(* The candidates with the second wall of a step down anchored to the      *)
(* right instead of to the left: a faulty variant that the edge of the      *)
(* step must tell from Candidates                                          *)
CandidatesDownRight(c, aDirection) ==
    CASE aDirection = eRight -> <<Wall(right(c), "V"), Wall(upright(c), "V")>>
      [] aDirection = eLeft -> <<Wall(c, "V"), Wall(up(c), "V")>>
      [] aDirection = eDown -> <<Wall(down(c), "H"), Wall(downright(c), "H")>>
      [] aDirection = eUp -> <<Wall(c, "H"), Wall(left(c), "H")>>
      [] OTHER -> <<>>

(* The two walls main() evaluates for one step of the path of the first    *)
(* player, in the order it evaluates them                                  *)
Candidates(c, aDirection) ==
    CASE aDirection = eRight -> <<Wall(right(c), "V"), Wall(upright(c), "V")>>
      [] aDirection = eLeft -> <<Wall(c, "V"), Wall(up(c), "V")>>
      [] aDirection = eDown -> <<Wall(down(c), "H"), Wall(downleft(c), "H")>>
      [] aDirection = eUp -> <<Wall(c, "H"), Wall(left(c), "H")>>
      [] OTHER -> <<>>

(* Command::move and Command::put, as the line written to standard output  *)
MoveCommand(aDirection) == [kind |-> "move", direction |-> aDirection, wall |-> NoWall]
PutCommand(aWall) == [kind |-> "put", direction |-> eNone, wall |-> aWall]

(* The loop of main() that reads the walls and sets them into the matrix *)
RECURSIVE readWalls(_, _, _)
readWalls(r, aWalls, i) ==
    IF i > Len(aWalls) \/ r.thrown
    THEN r
    ELSE readWalls(addWallCollisions(r.collisions, aWalls[i], TRUE), aWalls, i + 1)

----------------------------------------------------------------------------
(* The environment: the games and the turns the referee hands over.        *)
(* A board has GoalColumn + 1 columns when player 0 plays and GoalRow + 1  *)
(* rows when player 2 plays.  seats are the players still in the game.     *)
Games ==
    {[w |-> GoalColumn + 1, h |-> n, playerCount |-> 2, myId |-> m, seats |-> {0, 1}] :
        n \in 2..MaxShort, m \in {0, 1}}
    \cup
    {[w |-> n, h |-> GoalRow + 1, playerCount |-> 3, myId |-> m, seats |-> {1, 2}] :
        n \in MaxShort..MaxShort, m \in {1, 2}}

(* Where a player may stand: d cells off its goal edge, in lane l.  The    *)
(* acting player stands in lane 0, the others in lanes 0..MaxLane.         *)
Stand(aWidthX, aHeightY, aId, d, l) ==
    CASE aId = 0 -> <<aWidthX - 1 - d, l>>
      [] aId = 1 -> <<d, l>>
      [] OTHER -> <<l, aHeightY - 1 - d>>

Stands(g, aId) ==
    {Stand(g.w, g.h, aId, d, l) :
        d \in 1..(IF aId = g.myId THEN MaxGoalDist + 1 ELSE MaxGoalDist),
        l \in IF aId = g.myId THEN {0} ELSE 0..MaxLane}
        \cap RefCells(g.w, g.h)

(* The walls of a board *)
BoardWalls(aWidthX, aHeightY) ==
    {wl \in {Wall(Coords(c[1], c[2]), o) : c \in RefCells(aWidthX, aHeightY), o \in {"H", "V"}} :
        RefOnBoard(aWidthX, aHeightY, wl)}

(* A set of walls as the list the referee sends *)
RECURSIVE WallList(_)
WallList(aSet) ==
    IF aSet = {} THEN <<>>
    ELSE LET wl == CHOOSE x \in aSet : TRUE
         IN  <<wl>> \o WallList(aSet \ {wl})

(* The players in seats stand on distinct cells off their goal edge *)
Places(g) ==
    {p \in [g.seats -> RefCells(g.w, g.h)] :
        /\ \A i \in g.seats : p[i] \in Stands(g, i)
        /\ \A i, j \in g.seats : i # j => p[i] # p[j]}

(* The walls are on the board, touch a cell where a player other than the  *)
(* acting one stands, do not conflict, and leave every player a path to    *)
(* its goal edge                                                           *)
WallSets(g, p) ==
    {ws \in SUBSET {wl \in BoardWalls(g.w, g.h) :
                       \E e \in RefEdges(wl), i \in g.seats \ {g.myId} : p[i] \in e} :
        /\ Cardinality(ws) <= MaxWalls
        /\ \A a, b \in ws : a # b => ~RefConflict(a, b)
        /\ \A i \in g.seats :
              RefDistance(g.w, g.h, WallList(ws), fromPlayerId(i), p[i]) < SizeMax}

(* The turns of a game; the players out of the game are read as -1 -1 *)
TurnsAt(g, p) ==
    {[players |-> [i \in 0..(g.playerCount - 1) |->
                      IF i \in g.seats
                      THEN [x |-> p[i][1], y |-> p[i][2],
                            wallsLeft |-> IF i = g.myId THEN n ELSE MaxWallsLeft]
                      ELSE [x |-> -1, y |-> -1, wallsLeft |-> 0]],
      walls |-> WallList(ws)] :
        n \in 0..MaxWallsLeft, ws \in WallSets(g, p)}

Turns(g) == UNION {TurnsAt(g, p) : p \in Places(g)}

----------------------------------------------------------------------------
(* The state of main().  The variables from walls to distance are the      *)
(* locals of the body of its loop, None while they are out of scope.       *)
(* emitted holds the commands written to standard output during the turn,  *)
(* evals the record of the calls of evalWall made during the turn, and     *)
(* bModeWallBefore the value bModeWall had when the turn began.            *)
(* fIn and fOut hold the arguments and the result of a function that is    *)
(* checked on its own.                                                     *)
VARIABLES pc, game, bModeWall, bModeWallBefore, turn, players,
          walls, collisions, rankedPlayers, playersBeforeMe, bNewWall,
          nextCollisions, nextPaths, bestEval, coords, distance,
          emitted, evals, fIn, fOut

vars == <<pc, game, bModeWall, bModeWallBefore, turn, players,
          walls, collisions, rankedPlayers, playersBeforeMe, bNewWall,
          nextCollisions, nextPaths, bestEval, coords, distance,
          emitted, evals, fIn, fOut>>

locals == <<walls, collisions, rankedPlayers, playersBeforeMe, bNewWall,
            nextCollisions, nextPaths, bestEval, coords, distance>>

walkLocals == <<nextCollisions, nextPaths, bestEval, coords, distance>>

None == <<>>

(* Player::Vector players(playerCount, Player(w, h)); mySelf.bIsMySelf = true *)
NewPlayers(g) ==
    [i \in 0..(g.playerCount - 1) |->
        [Player(g.w, g.h) EXCEPT !.bIsMySelf = (i = g.myId)]]

mySelf == players[game.myId]

Init ==
    /\ pc = "read"
    /\ game \in Games
    /\ bModeWall = FALSE
    /\ bModeWallBefore = FALSE
    /\ turn = 0
    /\ players = NewPlayers(game)
    /\ walls = None /\ collisions = None /\ rankedPlayers = None
    /\ playersBeforeMe = None /\ bNewWall = FALSE
    /\ nextCollisions = None /\ nextPaths = None /\ bestEval = None
    /\ coords = None /\ distance = None
    /\ emitted = <<>> /\ evals = <<>>
    /\ fIn = None /\ fOut = None

(* Lines 596-645: read the players and the walls of the turn *)
ReadTurn ==
    /\ pc = "read"
    /\ turn < MaxTurns /\ turn < TurnBound
    /\ \E in \in Turns(game) :
          LET built == readWalls([thrown |-> FALSE,
                                  collisions |-> Matrix(game.w, game.h, NoCollision)],
                                 in.walls, 1)
          IN  /\ players' = [id \in DOMAIN players |->
                               LET p == in.players[id]
                                   read == [players[id] EXCEPT
                                               !.id = id,
                                               !.orientation = fromPlayerId(id),
                                               !.wallsLeft = p.wallsLeft]
                               IN  IF (p.x >= 0) /\ (p.y >= 0)
                                   THEN [read EXCEPT !.coords = Coords(p.x, p.y),
                                                     !.bIsAlive = TRUE]
                                   ELSE [read EXCEPT !.bIsAlive = FALSE]]
              /\ walls' = in.walls
              /\ collisions' = built.collisions
              /\ pc' = IF built.thrown \/ (\E id \in DOMAIN players : fromPlayerIdThrows(id))
                       THEN "crashed" ELSE "paths"
    /\ bModeWallBefore' = bModeWall
    /\ UNCHANGED <<game, bModeWall, turn, rankedPlayers, playersBeforeMe, bNewWall,
                   walkLocals, emitted, evals, fIn, fOut>>

(* Lines 655-670: pathfinding for each player.  pathfound is the player    *)
(* once findShortest has left its matrix as found.                         *)
pathfound(aPlayer, found) ==
    [aPlayer EXCEPT
        !.paths = found,
        !.distance = IF InRange(found, aPlayer.coords)
                     THEN found[aPlayer.coords.x][aPlayer.coords.y].distance
                     ELSE aPlayer.distance]

pathfinding(aPlayer) ==
    IF aPlayer.bIsAlive
    THEN pathfound(aPlayer,
                   findShortest(Matrix(width(aPlayer.paths), height(aPlayer.paths),
                                       InfiniteCell),
                                collisions, aPlayer.orientation))
    ELSE [aPlayer EXCEPT
             !.paths = Matrix(width(aPlayer.paths), height(aPlayer.paths), InfiniteCell),
             !.distance = SizeMax]

pathfindingThrows(aPlayer) ==
    /\ aPlayer.bIsAlive
    /\ \/ findShortestThrows(aPlayer.paths, aPlayer.orientation)
       \/ ~InRange(aPlayer.paths, aPlayer.coords)

FindPaths ==
    /\ pc = "paths"
    /\ players' = [id \in DOMAIN players |-> pathfinding(players[id])]
    /\ pc' = IF \E id \in DOMAIN players : pathfindingThrows(players[id])
             THEN "crashed" ELSE "rank"
    /\ UNCHANGED <<game, bModeWall, bModeWallBefore, turn, locals, emitted, evals, fIn, fOut>>

(* Lines 672-706: order in the turn, ranking, players before me *)
orderOf(id) ==
    CHOOSE order \in 0..(game.playerCount - 1) : (mySelf.id + order) % game.playerCount = id

(* std::sort with Player::compare of the players p, as a list of ids *)
sorted(p) ==
    [k \in 1..Cardinality(DOMAIN p) |->
        CHOOSE id \in DOMAIN p :
            Cardinality({other \in DOMAIN p : compare(p[other], p[id])}) = k - 1]

Rank ==
    /\ pc = "rank"
    /\ LET ordered == [id \in DOMAIN players |-> [players[id] EXCEPT !.order = orderOf(id)]]
           ranking == sorted(ordered)
           ranked == [id \in DOMAIN players |->
                        [ordered[id] EXCEPT !.rank =
                            (CHOOSE k \in DOMAIN ranking : ranking[k] = id) - 1]]
           alive == IF ~ranked[ranking[Len(ranking)]].bIsAlive
                    THEN SubSeq(ranking, 1, Len(ranking) - 1)
                    ELSE ranking
       IN  /\ players' = ranked
           /\ rankedPlayers' = alive
           /\ playersBeforeMe' =
                 IF ~ranked[alive[1]].bIsMySelf
                 THEN IF ~ranked[alive[2]].bIsMySelf
                      THEN <<alive[1], alive[1]>>
                      ELSE <<alive[1]>>
                 ELSE <<>>
    /\ pc' = "decide"
    /\ UNCHANGED <<game, bModeWall, bModeWallBefore, turn, walls, collisions, bNewWall,
                   walkLocals, emitted, evals, fIn, fOut>>

firstPlayer == players[players[playersBeforeMe[1]].id]
lastPlayer == players[rankedPlayers[Len(rankedPlayers)]]

(* The decision without the threshold on the distance of the first        *)
(* player: a faulty variant that the conditions of the walk must tell     *)
(* from Decide                                                             *)
DecideAnyLeader ==
    /\ pc = "decide"
    /\ IF /\ mySelf.wallsLeft > 0
          /\ Len(playersBeforeMe) > 0
          /\ lastPlayer.bIsMySelf \/ (lastPlayer.distance > 2) \/ bModeWall
       THEN /\ nextCollisions' = collisions
            /\ nextPaths' = Matrix(game.w, game.h, ZeroCell)
            /\ bestEval' = Evaluation(FALSE, NoWall, 0, 0, 0)
            /\ bModeWall' = TRUE
            /\ coords' = firstPlayer.coords
            /\ distance' = firstPlayer.distance
            /\ pc' = "walk"
       ELSE /\ pc' = "move"
            /\ UNCHANGED <<bModeWall, walkLocals>>
    /\ bNewWall' = FALSE
    /\ UNCHANGED <<game, bModeWallBefore, turn, players, walls, collisions, rankedPlayers,
                   playersBeforeMe, emitted, evals, fIn, fOut>>

(* Lines 708-746: whether to look for a wall, and the set up of the walk   *)
(* along the path of the first player                                      *)
Decide ==
    /\ pc = "decide"
    /\ IF /\ mySelf.wallsLeft > 0
          /\ Len(playersBeforeMe) > 0
          /\ (firstPlayer.distance < 4) \/ bModeWall
          /\ lastPlayer.bIsMySelf \/ (lastPlayer.distance > 2) \/ bModeWall
       THEN /\ nextCollisions' = collisions
            /\ nextPaths' = Matrix(game.w, game.h, ZeroCell)
            /\ bestEval' = Evaluation(FALSE, NoWall, 0, 0, 0)
            /\ bModeWall' = TRUE
            /\ coords' = firstPlayer.coords
            /\ distance' = firstPlayer.distance
            /\ pc' = "walk"
       ELSE /\ pc' = "move"
            /\ UNCHANGED <<bModeWall, walkLocals>>
    /\ bNewWall' = FALSE
    /\ UNCHANGED <<game, bModeWallBefore, turn, players, walls, collisions, rankedPlayers,
                   playersBeforeMe, emitted, evals, fIn, fOut>>

(* One call of evalWall made by the walk, on candidate k of the step *)
walkCell == firstPlayer.paths[coords.x][coords.y]

Evaluated(wall, r, aNextPc) ==
    /\ nextPaths' = r.paths
    /\ nextCollisions' = r.collisions
    /\ bestEval' = r.bestEval
    /\ evals' = Append(evals, [wall |-> wall, bIsCompatible |-> r.bIsCompatible,
                               eval |-> r.eval, applied |-> r.applied])
    /\ pc' = IF r.thrown THEN "crashed" ELSE aNextPc

EvalWith(wall, aNextPc) ==
    Evaluated(wall, evalWall(nextPaths, nextCollisions, players, walls, wall, bestEval),
              aNextPc)

EvalCandidate(k, aNextPc) ==
    EvalWith(Candidates(coords, walkCell.direction)[k], aNextPc)

(* Lines 747-757: a step of the walk up to its first call of evalWall *)
EvalFirst ==
    /\ pc = "walk"
    /\ distance > 0
    /\ IF InRange(firstPlayer.paths, coords) /\ walkCell.direction # eNone
       THEN /\ EvalCandidate(1, "walk2")
            /\ UNCHANGED <<coords, distance>>
       ELSE /\ pc' = "crashed"
            /\ UNCHANGED <<walkLocals, evals>>
    /\ UNCHANGED <<game, bModeWall, bModeWallBefore, turn, players, walls, collisions, rankedPlayers,
                   playersBeforeMe, bNewWall, emitted, fIn, fOut>>

(* Lines 756-786: the second call of evalWall of the step, and the move to *)
(* the next cell of the path; Matrix::get throws outside the matrix        *)
EvalSecond ==
    /\ pc = "walk2"
    /\ EvalCandidate(2, IF InRange(firstPlayer.paths, next(coords, walkCell.direction))
                         THEN "walk" ELSE "crashed")
    /\ LET c == next(coords, walkCell.direction)
       IN  IF InRange(firstPlayer.paths, c)
           THEN /\ coords' = c
                /\ distance' = firstPlayer.paths[c.x][c.y].distance
           ELSE /\ coords' = c
                /\ distance' = distance
    /\ UNCHANGED <<game, bModeWall, bModeWallBefore, turn, players, walls, collisions, rankedPlayers,
                   playersBeforeMe, bNewWall, emitted, fIn, fOut>>

(* Lines 787-794: the end of the walk puts the best wall, if there is one *)
EndWalk ==
    /\ pc = "walk"
    /\ distance = 0
    /\ IF bestEval.bIsValid
       THEN /\ bNewWall' = TRUE
            /\ emitted' = Append(emitted, PutCommand(bestEval.wall))
       ELSE UNCHANGED <<bNewWall, emitted>>
    /\ pc' = "move"
    /\ UNCHANGED <<game, bModeWall, bModeWallBefore, turn, players, walls, collisions, rankedPlayers,
                   playersBeforeMe, walkLocals, evals, fIn, fOut>>

(* The move made whether or not a wall was put: a faulty variant that the  *)
(* count of the commands of a turn must tell from Move                     *)
MoveAlways ==
    /\ pc = "move"
    /\ IF InRange(mySelf.paths, mySelf.coords)
          /\ mySelf.paths[mySelf.coords.x][mySelf.coords.y].direction # eNone
       THEN /\ emitted' = Append(emitted,
                  MoveCommand(mySelf.paths[mySelf.coords.x][mySelf.coords.y].direction))
            /\ pc' = "endturn"
       ELSE /\ pc' = "crashed"
            /\ UNCHANGED emitted
    /\ UNCHANGED <<game, bModeWall, bModeWallBefore, turn, players, locals, evals, fIn, fOut>>

(* Lines 799-804: without a new wall, move along my own shortest path;     *)
(* Command::move throws for eNone                                          *)
Move ==
    /\ pc = "move"
    /\ IF bNewWall
       THEN /\ pc' = "endturn"
            /\ UNCHANGED emitted
       ELSE IF InRange(mySelf.paths, mySelf.coords)
               /\ mySelf.paths[mySelf.coords.x][mySelf.coords.y].direction # eNone
            THEN /\ emitted' = Append(emitted,
                       MoveCommand(mySelf.paths[mySelf.coords.x][mySelf.coords.y].direction))
                 /\ pc' = "endturn"
            ELSE /\ pc' = "crashed"
                 /\ UNCHANGED emitted
    /\ UNCHANGED <<game, bModeWall, bModeWallBefore, turn, players, locals, evals, fIn, fOut>>

(* Lines 806-808 and ++turn: the locals of the loop body go out of scope.  *)
(* Every member of players that the next turn reads is written again       *)
(* before it is read (lines 606-614, 657-668, 677 and 686), so the model   *)
(* puts players back to its constructed value, and the line written to     *)
(* standard output is taken by the referee.                                *)
EndTurn ==
    /\ pc = "endturn"
    /\ pc' = "read"
    /\ turn' = turn + 1
    /\ players' = NewPlayers(game)
    /\ walls' = None /\ collisions' = None /\ rankedPlayers' = None
    /\ playersBeforeMe' = None /\ bNewWall' = FALSE
    /\ nextCollisions' = None /\ nextPaths' = None /\ bestEval' = None
    /\ coords' = None /\ distance' = None
    /\ emitted' = <<>> /\ evals' = <<>>
    /\ UNCHANGED <<game, bModeWall, bModeWallBefore, fIn, fOut>>

Next ==
    \/ ReadTurn
    \/ FindPaths
    \/ Rank
    \/ Decide
    \/ EvalFirst
    \/ EvalSecond
    \/ EndWalk
    \/ Move
    \/ EndTurn

Spec == Init /\ [][Next]_vars

----------------------------------------------------------------------------
(* Properties of a turn, stated with the rules of the board *)

Alive == {id \in DOMAIN players : players[id].bIsAlive}

CellOf(c) == <<c.x, c.y>>

(* The distance of a player to its goal edge with the walls aWalls *)
DistanceWith(aWalls, id) ==
    RefDistance(game.w, game.h, aWalls, fromPlayerId(id), CellOf(players[id].coords))

(* The commands of the turn that put a wall *)
EmittedWalls ==
    {emitted[i].wall : i \in {j \in 1..Len(emitted) : emitted[j].kind = "put"}}

(* C1: a turn of a player that is alive, off its goal edge and has a path  *)
(* to it ends with exactly one command written: one wall put or one move   *)
(* in a cardinal direction, never both and never none                      *)
OneCommandPerTurn ==
    /\ pc # "crashed"
    /\ Len(emitted) <= 1
    /\ (pc = "endturn") =>
          /\ Len(emitted) = 1
          /\ \/ /\ emitted[1].kind = "put"
                /\ emitted[1].wall.orientation \in {"H", "V"}
             \/ /\ emitted[1].kind = "move"
                /\ emitted[1].direction \in {eRight, eLeft, eDown, eUp}

(* A turn that ends with a wall put *)
TurnPutsWall ==
    /\ pc = "endturn"
    /\ Len(emitted) = 1
    /\ emitted[1].kind = "put"

(* A wall is sound when it passes the test of isCompatible against the     *)
(* walls of the turn, lies on the board clear of them, leaves every player *)
(* alive a path to its goal edge, and lengthens the path of the player of  *)
(* rank 0                                                                  *)
WallIsSound(aWall) ==
    /\ isCompatible(game.w, game.h, walls, aWall)
    /\ RefOnBoard(game.w, game.h, aWall)
    /\ \A i \in 1..Len(walls) : ~RefConflict(walls[i], aWall)
    /\ \A id \in Alive :
          /\ DistanceWith(Append(walls, aWall), id) < SizeMax
          /\ (players[id].rank = 0) =>
                (DistanceWith(Append(walls, aWall), id) > DistanceWith(walls, id))

(* C2: a wall put as the decision of the turn passed the legality check    *)
(* against the walls of the turn, leaves every player alive at a finite    *)
(* distance of its goal edge, and makes the distance of the player of rank *)
(* 0 strictly greater                                                      *)
EmittedWallIsSound == \A wl \in EmittedWalls : WallIsSound(wl)

(* A wall put on a board that holds a wall already *)
WallPutBesideWall ==
    /\ pc = "endturn"
    /\ EmittedWalls # {}
    /\ walls # <<>>

(* Both sides of every edge between two cells hold the same flag *)
Symmetric(m) ==
    \A x \in DOMAIN m : \A y \in DOMAIN m[x] :
        /\ ((x + 1) \in DOMAIN m) => (m[x][y].bRight = m[x + 1][y].bLeft)
        /\ ((y + 1) \in DOMAIN m[x]) => (m[x][y].bDown = m[x][y + 1].bUp)

(* C7: the collision matrix built from the walls of the turn, the matrix   *)
(* of the walk while a candidate is set and after it is reset, record      *)
(* every edge between two cells alike on both sides                        *)
EdgesConsistent ==
    /\ (collisions # None) => Symmetric(collisions)
    /\ (nextCollisions # None) => Symmetric(nextCollisions)
    /\ \A i \in 1..Len(evals) : Symmetric(evals[i].applied)

(* Two candidates were set and reset on a board that holds a wall *)
CandidatesSetAndReset ==
    /\ pc = "walk"
    /\ walls # <<>>
    /\ Len(evals) = 2
    /\ evals[1].bIsCompatible /\ evals[1].applied # collisions
    /\ evals[2].bIsCompatible /\ evals[2].applied # collisions
    /\ nextCollisions = collisions

(* The weight of the change of the distance of a player in the score *)
Weight(id) ==
    IF players[id].rank = 0 THEN 100
    ELSE IF players[id].bIsMySelf THEN 0 - 70 ELSE 40

WeightedImpact(aWall, id) ==
    IF id \in Alive
    THEN Weight(id) * (DistanceWith(Append(walls, aWall), id) - DistanceWith(walls, id))
    ELSE 0

RefScore(aWall) ==
    (WeightedImpact(aWall, 0) + WeightedImpact(aWall, 1)) + WeightedImpact(aWall, 2)

(* A candidate counts when it is legal, leaves every player alive a path,  *)
(* and lengthens the path of the player of rank 0                          *)
Counts(aWall) ==
    /\ isCompatible(game.w, game.h, walls, aWall)
    /\ \A id \in Alive :
          /\ DistanceWith(Append(walls, aWall), id) < SizeMax
          /\ (players[id].rank = 0) =>
                (DistanceWith(Append(walls, aWall), id) > DistanceWith(walls, id))

(* The candidates of the walk that count, each with the place it was       *)
(* evaluated at and its score                                              *)
Judged ==
    {[i |-> i, wall |-> evals[i].wall, score |-> RefScore(evals[i].wall)] :
        i \in {j \in 1..Len(evals) : Counts(evals[j].wall)}}

BestIsLastMaximumOf(aJudged) ==
    IF aJudged = {}
    THEN ~bestEval.bIsValid
    ELSE /\ bestEval.bIsValid
         /\ \E b \in aJudged :
               /\ \A j \in aJudged :
                     (j.score < b.score) \/ ((j.score = b.score) /\ (j.i <= b.i))
               /\ bestEval.wall = b.wall
               /\ Score(bestEval) = b.score

(* C9: after the walk along the path of the first player the best          *)
(* evaluation is the candidate of maximum score 100 * impactOnFirst - 70 * *)
(* impactOnMySelf + 40 * impactOnOther among the candidates that are       *)
(* legal, strand no player alive and lengthen the path of the first        *)
(* player; of several such candidates the one evaluated last; and it is    *)
(* not valid when no candidate counts                                      *)
BestIsLastMaximum ==
    ((pc = "move") /\ (bestEval # None)) => BestIsLastMaximumOf(Judged)

(* A walk that ends with two candidates of the maximum score *)
WalkEndsOnTie ==
    /\ pc = "move"
    /\ bestEval # None
    /\ bestEval.bIsValid
    /\ \E a \in Judged : \E b \in Judged :
          /\ a.i < b.i /\ a.wall # b.wall /\ a.score = b.score
          /\ \A j \in Judged : j.score <= a.score

(* The order of a player in the turn, and its distance for the ranking: a  *)
(* player out of the game is infinitely far                                *)
OrderInTurn(id) == ((id - game.myId) + game.playerCount) % game.playerCount

RECURSIVE RankDistances(_)
RankDistances(n) ==
    IF n = 0 THEN <<>>
    ELSE Append(RankDistances(n - 1),
                IF players[n - 1].bIsAlive THEN DistanceWith(walls, n - 1) ELSE SizeMax)

RankedBy(d) ==
    /\ \A a \in DOMAIN players : \A b \in DOMAIN players :
          (players[a].rank < players[b].rank)
              <=> \/ d[a + 1] < d[b + 1]
                  \/ (d[a + 1] = d[b + 1]) /\ (OrderInTurn(a) < OrderInTurn(b))
    /\ (mySelf.rank = 0)
          <=> (\A id \in Alive : ~(d[id + 1] < d[game.myId + 1]))

(* The move of the command leads over a free edge to a cell one step       *)
(* nearer to my goal edge                                                  *)
MoveIsShortest(d, aCommand) ==
    /\ aCommand.direction = mySelf.paths[mySelf.coords.x][mySelf.coords.y].direction
    /\ {CellOf(mySelf.coords), CellOf(next(mySelf.coords, aCommand.direction))}
           \notin RefBlocked(walls)
    /\ RefDistance(game.w, game.h, walls, fromPlayerId(game.myId),
                   CellOf(next(mySelf.coords, aCommand.direction))) + 1 = d[game.myId + 1]

DecidedBy(d, aCommand) ==
    /\ (aCommand.kind = "put") => ((mySelf.wallsLeft > 0) /\ (mySelf.rank # 0))
    /\ ((mySelf.wallsLeft = 0) \/ (mySelf.rank = 0)) => (aCommand.kind = "move")
    /\ (aCommand.kind = "move") => MoveIsShortest(d, aCommand)

(* C10: the players are ranked by distance, then by their order in the     *)
(* turn (id - myId) mod playerCount, so that the acting player is first    *)
(* whenever no other player alive is strictly nearer to its goal edge; a   *)
(* wall is put only when the acting player has a wall left and is not      *)
(* first, and otherwise the command is the move along its own shortest     *)
(* path from the cell it stands on                                         *)
RankingAndDecision ==
    /\ (pc = "decide") => RankedBy(RankDistances(game.playerCount))
    /\ ((pc = "endturn") /\ (Len(emitted) = 1)) =>
          DecidedBy(RankDistances(game.playerCount), emitted[1])

(* The acting player has a wall left and is as near to its goal edge as    *)
(* another player: it is ranked first and moves                            *)
FirstOnTieMoves ==
    /\ pc = "endturn"
    /\ mySelf.wallsLeft > 0
    /\ mySelf.rank = 0
    /\ \E id \in Alive :
          /\ id # game.myId
          /\ DistanceWith(walls, id) = DistanceWith(walls, game.myId)
    /\ Len(emitted) = 1
    /\ emitted[1].kind = "move"

(* The cell one step from c in a direction *)
RefStep(c, aDirection) ==
    CASE aDirection = eRight -> <<c[1] + 1, c[2]>>
      [] aDirection = eLeft -> <<c[1] - 1, c[2]>>
      [] aDirection = eDown -> <<c[1], c[2] + 1>>
      [] aDirection = eUp -> <<c[1], c[2] - 1>>
      [] OTHER -> c

(* Cell n is a neighbour of c across an edge no wall blocks, one step      *)
(* nearer to the goal edge in the matrix aPaths                            *)
StepsDown(aPaths, aBlocked, c, n) ==
    /\ n \in RefCells(width(aPaths), height(aPaths))
    /\ {c, n} \notin aBlocked
    /\ aPaths[c[1]][c[2]].distance > 0
    /\ aPaths[c[1]][c[2]].distance < SizeMax
    /\ aPaths[n[1]][n[2]].distance = aPaths[c[1]][c[2]].distance - 1

(* The walk along the path of the first player was entered in this turn:   *)
(* its best evaluation is in scope, a wall was evaluated or a wall was put *)
WalkEntered == (bestEval # None) \/ (evals # <<>>) \/ (EmittedWalls # {})

LatchFollowsWall ==
    /\ (turn = 0 /\ pc = "read") => ~bModeWall
    /\ (pc = "endturn") =>
          /\ bModeWall => (bModeWallBefore \/ (EmittedWalls # {}))
          /\ (EmittedWalls = {}) => (bModeWall = bModeWallBefore)

(* The call of evalWall made last in the turn *)
LastEval == evals[Len(evals)]

(* The impact evalWall recorded on a player *)
ImpactOn(aEval, id) ==
    IF players[id].rank = 0 THEN aEval.impactOnFirst
    ELSE IF players[id].bIsMySelf THEN aEval.impactOnMySelf
    ELSE aEval.impactOnOther

(* C13: for a candidate wall that passes the legality check, the distance  *)
(* of every player alive with the wall set is at least its distance        *)
(* before; the three impacts recorded never exceed the number of cells,    *)
(* and for a valid evaluation each is the growth of the distance           *)
ImpactsNeverWrap ==
    ((evals # <<>>) /\ LastEval.bIsCompatible) =>
        /\ \A id \in Alive :
              players[id].distance <= DistanceWith(Append(walls, LastEval.wall), id)
        /\ LastEval.eval.impactOnFirst <= game.w * game.h
        /\ LastEval.eval.impactOnMySelf <= game.w * game.h
        /\ LastEval.eval.impactOnOther <= game.w * game.h
        /\ LastEval.eval.bIsValid =>
              \A id \in Alive :
                  ImpactOn(LastEval.eval, id) =
                      DistanceWith(Append(walls, LastEval.wall), id) - players[id].distance

(* A candidate that lengthens the path of the first player and the path of *)
(* the acting player                                                       *)
WallLengthensBoth ==
    /\ evals # <<>>
    /\ LastEval.bIsCompatible
    /\ LastEval.eval.bIsValid
    /\ LastEval.eval.impactOnFirst > 0
    /\ LastEval.eval.impactOnMySelf > 0

(* A step of the walk that makes a call of evalWall and returns from it *)
EvalWallReturns ==
    /\ pc \in {"walk", "walk2"}
    /\ Len(evals') = Len(evals) + 1
    /\ pc' # "crashed"

(* C15: every call of evalWall, whether the candidate is illegal, leaves a *)
(* player without a path or becomes the best, returns with the working     *)
(* collision matrix equal to its value before the call, and leaves the     *)
(* players with their path matrices, distances and ranks as they were      *)
EvalWallFrame ==
    [][EvalWallReturns => (nextCollisions' = nextCollisions /\ players' = players)]_vars

(* A walk that has met the three outcomes of evalWall: a candidate that is *)
(* illegal, one that leaves a player without a path and one that became    *)
(* the best, with the working collision matrix as it was                   *)
WalkMetEveryOutcome ==
    /\ pc = "walk"
    /\ \E i \in 1..Len(evals) : ~evals[i].bIsCompatible
    /\ \E i \in 1..Len(evals) : evals[i].bIsCompatible /\ ~evals[i].eval.bIsValid
    /\ bestEval.bIsValid
    /\ nextCollisions = collisions

(* Every cell of a path matrix at a finite distance d > 0 holds a          *)
(* direction, and the cell one step in that direction lies on the board    *)
(* across an edge no wall blocks, at distance d - 1                        *)
FieldDescends(aPaths, aBlocked) ==
    \A c \in RefCells(width(aPaths), height(aPaths)) :
        ((aPaths[c[1]][c[2]].distance > 0) /\ (aPaths[c[1]][c[2]].distance < SizeMax)) =>
            /\ aPaths[c[1]][c[2]].direction # eNone
            /\ StepsDown(aPaths, aBlocked, c, RefStep(c, aPaths[c[1]][c[2]].direction))

(* The walk has made n calls of evalWall and stands on a cell of the board *)
(* that many half steps down the path of the first player                  *)
WalkAt(n) ==
    /\ Len(evals) = n
    /\ InRange(firstPlayer.paths, coords)
    /\ walkCell.distance = distance
    /\ (distance > 0) => (walkCell.direction # eNone)

(* C17: in every matrix findShortest leaves, each cell at a finite         *)
(* distance d > 0 holds a direction other than eNone, across an edge that  *)
(* is not blocked, to a neighbour at distance d - 1; the walk along the    *)
(* path of the first player never meets eNone, stays on the board, comes   *)
(* one cell nearer with every two calls of evalWall, and has ended on a    *)
(* cell at distance 0 after as many iterations as the distance of the      *)
(* first player                                                            *)
WalkDescends ==
    /\ pc # "crashed"
    /\ (pc = "rank") =>
          \A id \in Alive : FieldDescends(players[id].paths, RefBlocked(walls))
    /\ (pc = "walk") => WalkAt(2 * (firstPlayer.distance - distance))
    /\ (pc = "walk2") => WalkAt((2 * (firstPlayer.distance - distance)) + 1)
    /\ ((pc = "move") /\ (bestEval # None)) =>
          (WalkAt(2 * firstPlayer.distance) /\ (distance = 0))

(* A walk of two iterations or more that ended where the path of the first *)
(* player bends around a wall                                              *)
WalkAroundWallEnded ==
    /\ pc = "move"
    /\ bestEval # None
    /\ distance = 0
    /\ Len(evals) >= 4
    /\ Len(evals) = 2 * firstPlayer.distance
    /\ \E i, j \in 1..Len(evals) :
          evals[i].wall.orientation = "H" /\ evals[j].wall.orientation = "V"

(* The anchor of a wall was computed by stepping off column 0 or row 0 *)
Wrapped(aWall) == (aWall.coords.x = SizeMax) \/ (aWall.coords.y = SizeMax)

(* C18: during the walk, every candidate whose anchor wrapped at column 0  *)
(* or row 0 fails the legality check, and every candidate that passes it   *)
(* sets flags on cells of the board only: both its edges separate cells of *)
(* the board, and no call of evalWall throws                               *)
WrappedCandidatesRejected ==
    /\ (evals # <<>>) => (pc # "crashed")
    /\ \A i \in 1..Len(evals) :
          /\ Wrapped(evals[i].wall) => ~evals[i].bIsCompatible
          /\ evals[i].bIsCompatible => RefOnBoard(game.w, game.h, evals[i].wall)

(* A step of the walk along row 0 or column 0: its first candidate passes  *)
(* the legality check, its second one has an anchor that wrapped and fails *)
StepAlongTheEdge ==
    /\ pc = "walk"
    /\ Len(evals) >= 2
    /\ evals[Len(evals) - 1].bIsCompatible
    /\ Wrapped(LastEval.wall)
    /\ ~LastEval.bIsCompatible

----------------------------------------------------------------------------
(* Functions checked on their own.  fIn holds the arguments of one call,   *)
(* fOut what the call leaves; the variables of main() stay out of scope.   *)

MaxSolveWalls == 2  \* walls on the board of a call of the solver
MaxLong == 10       \* the long side of a board runs from GoalColumn to MaxLong
MaxAnchor == 3      \* anchors of the walls of a pair lie in 0..MaxAnchor
MaxSide == 3        \* a board of the wall functions has 2..MaxSide columns and rows

PureInit(aInputs) ==
    /\ fIn \in aInputs
    /\ fOut = None
    /\ pc = "call"
    /\ game = None /\ bModeWall = FALSE /\ bModeWallBefore = FALSE /\ turn = 0
    /\ players = None
    /\ walls = None /\ collisions = None /\ rankedPlayers = None
    /\ playersBeforeMe = None /\ bNewWall = FALSE
    /\ nextCollisions = None /\ nextPaths = None /\ bestEval = None
    /\ coords = None /\ distance = None
    /\ emitted = <<>> /\ evals = <<>>

PureReturn(aResult) ==
    /\ pc = "call"
    /\ fOut' = aResult
    /\ pc' = "done"
    /\ UNCHANGED <<game, bModeWall, bModeWallBefore, turn, players, locals, emitted, evals, fIn>>

(* The lists of at most n walls of a pool that do not conflict, each list  *)
(* in one order                                                            *)
WallKey(aWall) ==
    ((IF aWall.orientation = "V" THEN 10000 ELSE 0) + (aWall.coords.x * 100))
    + aWall.coords.y

Fits(aList, aWall) ==
    \A i \in 1..Len(aList) :
        (WallKey(aList[i]) < WallKey(aWall)) /\ ~RefConflict(aList[i], aWall)

RECURSIVE WallLists(_, _)
WallLists(aPool, n) ==
    IF n = 0 THEN {<<>>}
    ELSE {<<>>} \cup
         UNION {{<<wl>> \o l : wl \in {v \in aPool : Fits(l, v) /\ Len(l) < n}} :
                  l \in WallLists(aPool, n - 1)}

BoardInputs(aBoards, n) ==
    UNION {{[w |-> b.w, h |-> b.h, orientation |-> b.orientation, walls |-> l] :
              l \in WallLists(BoardWalls(b.w, b.h), n)} : b \in aBoards}

(* One call of findShortest on a matrix of infinite cells, as lines 657    *)
(* and 661 and lines 534 and 535 make it, with the collision matrix built  *)
(* from the walls as lines 636-642 build it                                *)
solved(in, built) ==
    [thrown |-> built.thrown
                \/ findShortestThrows(Matrix(in.w, in.h, InfiniteCell), in.orientation),
     paths |-> findShortest(Matrix(in.w, in.h, InfiniteCell), built.collisions,
                            in.orientation)]

Solve ==
    PureReturn(solved(fIn, readWalls([thrown |-> FALSE,
                                      collisions |-> Matrix(fIn.w, fIn.h, NoCollision)],
                                     fIn.walls, 1)))

(* The boards of the game: GoalColumn + 1 columns for the players that go  *)
(* right, GoalRow + 1 rows for the player that goes down, and any board    *)
(* for the player that goes left                                           *)
SolveBoards ==
    {[w |-> GoalColumn + 1, h |-> n, orientation |-> o] :
        n \in 2..MaxShort, o \in {eRight, eLeft}}
    \cup {[w |-> n, h |-> GoalRow + 1, orientation |-> eDown] : n \in 2..MaxShort}
    \cup {[w |-> n, h |-> m, orientation |-> eLeft] : n \in 2..MaxShort, m \in 2..MaxShort}

InitSolve == PureInit(BoardInputs(SolveBoards, MaxSolveWalls))

SpecSolve == InitSolve /\ [][Solve]_vars

(* The distance to the goal edge of a board without walls *)
Manhattan(in, c) ==
    CASE in.orientation = eRight -> (in.w - 1) - c[1]
      [] in.orientation = eLeft -> c[1]
      [] OTHER -> (in.h - 1) - c[2]

SolvedAsSearched(in, out, dist) ==
    /\ ~out.thrown
    /\ \A c \in RefCells(in.w, in.h) :
          IF c \in DOMAIN dist
          THEN out.paths[c[1]][c[2]].distance = dist[c]
          ELSE out.paths[c[1]][c[2]] = InfiniteCell
    /\ (in.walls = <<>>) =>
          \A c \in RefCells(in.w, in.h) : out.paths[c[1]][c[2]].distance = Manhattan(in, c)

(* C3: after findShortest the distance of every cell is the length of its  *)
(* shortest path over the edges that no wall blocks to the goal edge, as a *)
(* breadth-first search finds it, and the Manhattan distance to the goal   *)
(* edge on a board without walls; a cell without a path keeps the infinite *)
(* distance and the direction eNone.  Checked on the boards of the game.   *)
SolverIsShortestPath ==
    (pc = "done") =>
        SolvedAsSearched(fIn, fOut, RefDistances(fIn.w, fIn.h, fIn.walls, fIn.orientation))

(* A board where the walls close some cells off and lengthen the path of   *)
(* others                                                                  *)
SolverDetoursAndDeadEnds ==
    /\ pc = "done"
    /\ ~fOut.thrown
    /\ \E c \in RefCells(fIn.w, fIn.h) : fOut.paths[c[1]][c[2]] = InfiniteCell
    /\ \E c \in RefCells(fIn.w, fIn.h) :
          /\ fOut.paths[c[1]][c[2]].distance < SizeMax
          /\ fOut.paths[c[1]][c[2]].distance > Manhattan(fIn, c)

ForwardWins(aPaths, aBlocked, aOrientation) ==
    \A c \in RefCells(width(aPaths), height(aPaths)) :
        StepsDown(aPaths, aBlocked, c, RefStep(c, aOrientation))
            => (aPaths[c[1]][c[2]].direction = aOrientation)

(* C14: in the matrix findShortest leaves, every cell at a finite distance *)
(* d > 0 whose neighbour toward the goal edge lies across an edge no wall  *)
(* blocks and is at distance d - 1 holds the orientation of the player as  *)
(* its direction                                                           *)
ForwardStepWinsTies ==
    (pc = "done" /\ ~fOut.thrown) =>
        ForwardWins(fOut.paths, RefBlocked(fIn.walls), fIn.orientation)

(* A cell with two steps of equal length, one of them toward the goal      *)
(* edge and one sideways, that holds the step toward the goal edge         *)
SolverBreaksTie ==
    /\ pc = "done"
    /\ ~fOut.thrown
    /\ \E c \in RefCells(fIn.w, fIn.h) :
          /\ StepsDown(fOut.paths, RefBlocked(fIn.walls), c, RefStep(c, fIn.orientation))
          /\ \E d \in {eRight, eLeft, eDown, eUp} \ {fIn.orientation} :
                StepsDown(fOut.paths, RefBlocked(fIn.walls), c, RefStep(c, d))
          /\ fOut.paths[c[1]][c[2]].direction = fIn.orientation

(* Boards of any width and height around the size of the game *)
SeedBoards ==
    {[w |-> n, h |-> m, orientation |-> o] :
        n \in GoalColumn..MaxLong, m \in 2..MaxShort, o \in {eRight, eLeft}}
    \cup {[w |-> m, h |-> n, orientation |-> eDown] :
             n \in GoalRow..MaxLong, m \in 2..MaxShort}

InitSeed == PureInit(BoardInputs(SeedBoards, 1))

SpecSeed == InitSeed /\ [][Solve]_vars

(* C4: on a board of any width and height findShortest seeds the goal edge *)
(* of the orientation, and leaves exactly the cells of that edge with the  *)
(* distance 0 and the direction eNone                                      *)
SeedsAreGoalEdge ==
    (pc = "done") =>
        /\ ~fOut.thrown
        /\ \A c \in RefCells(fIn.w, fIn.h) :
              (fOut.paths[c[1]][c[2]] = ZeroCell)
                  <=> (c \in RefGoal(fIn.w, fIn.h, fIn.orientation))

----------------------------------------------------------------------------
(* isCompatible on a pair of walls, taken both ways, and on the list that  *)
(* holds the existing wall alone, on a board that holds both walls         *)
Anchors ==
    {Wall(Coords(x, y), o) : x \in 0..MaxAnchor, y \in 0..MaxAnchor, o \in {"H", "V"}}

InitPair == PureInit({[existing |-> a, new |-> b] : a \in Anchors, b \in Anchors})

CheckPair ==
    PureReturn([verdict |-> isCompatibleWalls(fIn.existing, fIn.new),
                reverse |-> isCompatibleWalls(fIn.new, fIn.existing),
                bounds |-> isCompatibleBounds(MaxAnchor + 2, MaxAnchor + 2, fIn.new),
                list |-> isCompatible(MaxAnchor + 2, MaxAnchor + 2,
                                      <<fIn.existing>>, fIn.new)])

SpecPair == InitPair /\ [][CheckPair]_vars

(* The pairs of walls that cannot stand together: the same wall, two walls *)
(* of one orientation on one line with their anchors one cell apart, and   *)
(* two walls of opposite orientations that cross at their midpoints        *)
PairRejected(a, b) ==
    \/ a = b
    \/ /\ a.orientation = "H" /\ b.orientation = "H"
       /\ a.coords.y = b.coords.y
       /\ (a.coords.x = b.coords.x + 1) \/ (b.coords.x = a.coords.x + 1)
    \/ /\ a.orientation = "V" /\ b.orientation = "V"
       /\ a.coords.x = b.coords.x
       /\ (a.coords.y = b.coords.y + 1) \/ (b.coords.y = a.coords.y + 1)
    \/ /\ a.orientation = "H" /\ b.orientation = "V"
       /\ b.coords.x = a.coords.x + 1 /\ b.coords.y + 1 = a.coords.y
    \/ /\ a.orientation = "V" /\ b.orientation = "H"
       /\ a.coords.x = b.coords.x + 1 /\ a.coords.y + 1 = b.coords.y

(* C5: the test of a new wall against an existing one rejects exactly the  *)
(* pairs that cannot stand together and accepts every other pair, whichever*)
(* of the two walls is taken as the existing one; the test against a list  *)
(* rejects the new wall when the test against a wall of the list does      *)
PairVerdictIsGeometric ==
    (pc = "done") =>
        /\ fOut.verdict = ~PairRejected(fIn.existing, fIn.new)
        /\ fOut.verdict = fOut.reverse
        /\ fOut.list = (fOut.bounds /\ fOut.verdict)

(* A horizontal wall and the vertical wall that crosses it at its midpoint *)
PairCrossingRejected ==
    /\ pc = "done"
    /\ fIn.existing.orientation = "H" /\ fIn.new.orientation = "V"
    /\ fIn.new.coords = upright(fIn.existing.coords)
    /\ ~fOut.verdict /\ ~fOut.reverse

----------------------------------------------------------------------------
(* isCompatible on the coordinates of a wall alone, and what setting the   *)
(* wall into an empty collision matrix of that board does.  The anchors    *)
(* run past the board, and to the coordinate that 0 - 1 wraps to.          *)
InitBounds ==
    PureInit({[w |-> n, h |-> m, wall |-> Wall(Coords(x, y), o)] :
                 n \in 2..MaxSide, m \in 2..MaxSide,
                 x \in (0..(MaxSide + 1)) \cup {SizeMax},
                 y \in (0..(MaxSide + 1)) \cup {SizeMax},
                 o \in {"H", "V"}})

CheckBounds ==
    PureReturn([accepted |-> isCompatibleBounds(fIn.w, fIn.h, fIn.wall),
                set |-> addWallCollisions(Matrix(fIn.w, fIn.h, NoCollision),
                                          fIn.wall, TRUE)])

SpecBounds == InitBounds /\ [][CheckBounds]_vars

(* A wall strictly inside the board *)
Interior(aWidthX, aHeightY, aWall) ==
    IF aWall.orientation = "H"
    THEN /\ aWall.coords.x < aWidthX - 1
         /\ 1 <= aWall.coords.y /\ aWall.coords.y <= aHeightY - 1
    ELSE /\ aWall.coords.y < aHeightY - 1
         /\ 1 <= aWall.coords.x /\ aWall.coords.x <= aWidthX - 1

(* C6: the test on the coordinates accepts a wall only if it is strictly   *)
(* inside the board, so that the four cells whose flags the wall sets are  *)
(* cells of the board                                                      *)
BoundsCheckIsInterior ==
    (pc = "done" /\ fOut.accepted) =>
        /\ Interior(fIn.w, fIn.h, fIn.wall)
        /\ ~fOut.set.thrown

----------------------------------------------------------------------------
(* A wall set into a collision matrix and reset at once, as lines 530 and  *)
(* 570 do; the matrix is built from the walls of the board, and the wall   *)
(* is any wall strictly inside the board                                   *)
roundTrip(before, set, aWall) ==
    [before |-> before.collisions, set |-> set.collisions,
     after |-> addWallCollisions(set.collisions, aWall, FALSE).collisions,
     thrown |-> before.thrown \/ set.thrown
                \/ addWallCollisions(set.collisions, aWall, FALSE).thrown]

setWall(before, aWall) ==
    roundTrip(before, addWallCollisions(before.collisions, aWall, TRUE), aWall)

ApplyRetract ==
    PureReturn(setWall(readWalls([thrown |-> FALSE,
                                  collisions |-> Matrix(fIn.w, fIn.h, NoCollision)],
                                 fIn.walls, 1),
                       fIn.new))

RoundTripBoards == {[w |-> n, h |-> m] : n \in 2..MaxSide, m \in 2..MaxSide}

InitRoundTrip ==
    PureInit(UNION {{[w |-> b.w, h |-> b.h, walls |-> l, new |-> wl] :
                       l \in WallLists(BoardWalls(b.w, b.h), MaxSolveWalls),
                       wl \in BoardWalls(b.w, b.h)} : b \in RoundTripBoards})

SpecRoundTrip == InitRoundTrip /\ [][ApplyRetract]_vars

(* C8 as it is stated: setting a wall strictly inside the board and        *)
(* resetting it at once leaves the four flags of every cell as they were   *)
RoundTripRestores ==
    (pc = "done") => (fOut.after = fOut.before)

(* The two edges of the new wall are free of the walls of the board *)
FreeEdges(aWalls, aWall) == RefEdges(aWall) \cap RefBlocked(aWalls) = {}

(* C8: setting a wall strictly inside the board and resetting it at once   *)
(* leaves the four flags of every cell as they were, when no wall of the   *)
(* board blocks an edge of the wall already; the walls that isCompatible   *)
(* accepts against the walls of the board are such walls                   *)
RoundTripRestoresFreeEdges ==
    (pc = "done") =>
        /\ FreeEdges(fIn.walls, fIn.new) => ((fOut.after = fOut.before) /\ ~fOut.thrown)
        /\ isCompatible(fIn.w, fIn.h, fIn.walls, fIn.new) => FreeEdges(fIn.walls, fIn.new)

(* A wall set beside a wall of the board, and reset *)
RoundTripBesideWall ==
    /\ pc = "done"
    /\ fIn.walls # <<>>
    /\ isCompatible(fIn.w, fIn.h, fIn.walls, fIn.new)
    /\ fOut.set # fOut.before
    /\ fOut.after = fOut.before

----------------------------------------------------------------------------
(* The candidates of one step of the walk, lines 752-776: fIn holds the    *)
(* board, the cell of the path and its direction, fOut the two walls in    *)
(* the order they are evaluated and what addWallCollisions leaves when     *)
(* each is set into a collision matrix without walls                       *)
setWalls(in, aWalls) ==
    <<addWallCollisions(Matrix(in.w, in.h, NoCollision), aWalls[1], TRUE),
      addWallCollisions(Matrix(in.w, in.h, NoCollision), aWalls[2], TRUE)>>

generated(in, aWalls) == [walls |-> aWalls, set |-> setWalls(in, aWalls)]

Generate == PureReturn(generated(fIn, Candidates(fIn.coords, fIn.direction)))

(* The steps of a path: a cell of a board and a direction that leads to a  *)
(* cell of the board                                                       *)
Steps ==
    {in \in [w : 2..MaxSide, h : 2..MaxSide,
             coords : {Coords(x, y) : x \in 0..(MaxSide - 1), y \in 0..(MaxSide - 1)},
             direction : {eRight, eLeft, eDown, eUp}] :
        /\ <<in.coords.x, in.coords.y>> \in RefCells(in.w, in.h)
        /\ RefStep(<<in.coords.x, in.coords.y>>, in.direction) \in RefCells(in.w, in.h)}

InitCandidates == PureInit(Steps)

SpecCandidates == InitCandidates /\ [][Generate]_vars

(* The edge a step crosses *)
StepEdge(in) == {<<in.coords.x, in.coords.y>>, RefStep(<<in.coords.x, in.coords.y>>, in.direction)}

(* The first and the second edge a wall blocks, from its anchor on *)
RefFirstEdge(x, y, o) ==
    IF o = "H" THEN {<<x, y - 1>>, <<x, y>>} ELSE {<<x - 1, y>>, <<x, y>>}

RefSecondEdge(x, y, o) ==
    IF o = "H" THEN {<<x + 1, y - 1>>, <<x + 1, y>>} ELSE {<<x - 1, y + 1>>, <<x, y + 1>>}

(* A coordinate as the signed number it stands for: 0 - 1 is -1 *)
Signed(n) == IF n = SizeMax THEN -1 ELSE n

(* A wall as the triple of its signed anchor and its orientation *)
Placed(aWall) == <<Signed(aWall.coords.x), Signed(aWall.coords.y), aWall.orientation>>

(* The placements of a wall, around the board included, that block an edge *)
Blocking(in, e) ==
    {p \in ((-1)..in.w) \X ((-1)..in.h) \X {"H", "V"} :
        (RefFirstEdge(p[1], p[2], p[3]) = e) \/ (RefSecondEdge(p[1], p[2], p[3]) = e)}

(* The flag of a cell toward a direction *)
FlagToward(aDirection) ==
    CASE aDirection = eRight -> "bRight"
      [] aDirection = eLeft -> "bLeft"
      [] aDirection = eDown -> "bDown"
      [] OTHER -> "bUp"

(* Setting a wall that lies on the board blocks the step *)
BlocksStep(in, aWall, set) ==
    RefOnBoard(in.w, in.h, aWall) =>
        /\ ~set.thrown
        /\ set.collisions[in.coords.x][in.coords.y][FlagToward(in.direction)]

CandidatesBlock(in, out, e) ==
    /\ Len(out.walls) = 2
    /\ {Placed(out.walls[1]), Placed(out.walls[2])} = Blocking(in, e)
    /\ RefFirstEdge(Placed(out.walls[1])[1], Placed(out.walls[1])[2],
                    out.walls[1].orientation) = e
    /\ RefSecondEdge(Placed(out.walls[2])[1], Placed(out.walls[2])[2],
                     out.walls[2].orientation) = e
    /\ BlocksStep(in, out.walls[1], out.set[1])
    /\ BlocksStep(in, out.walls[2], out.set[2])

(* C16: for each of the four directions of a step, the two candidates are  *)
(* exactly the two placements of a wall that block the edge between the    *)
(* cell of the path and the next one: the first has that edge as its first *)
(* edge, the second as its second edge, and setting either blocks the step *)
CandidatesBlockTheStep ==
    (pc = "done") => CandidatesBlock(fIn, fOut, StepEdge(fIn))

(* A step whose two candidates lie on the board and were set *)
StepWithTwoWallsOnBoard ==
    /\ pc = "done"
    /\ RefOnBoard(fIn.w, fIn.h, fOut.walls[1])
    /\ RefOnBoard(fIn.w, fIn.h, fOut.walls[2])
    /\ ~fOut.set[1].thrown
    /\ ~fOut.set[2].thrown

====
